---- MODULE Spec2Model ----
(***************************************************************************)
(* A model of the two utilities of the repository:                         *)
(*   fix-fixtures.py            the fixture rewriter and its driver loop   *)
(*   examples/hooks/run-tests.py the test-dispatch hook                    *)
(*                                                                         *)
(* A text is a sequence of atoms.  Every atom is a literal piece of text   *)
(* and a text denotes the concatenation of its atoms.  The atoms are cut   *)
(* so that every place where one of the strings the rewriter looks for can *)
(* begin or end inside a text is an atom boundary: in particular the final *)
(* "w" of "whatWeAreBuilding.projectOverview" and of                       *)
(* "solutionSpace.overview" is an atom of its own, because it is also the  *)
(* first character of all four old rename strings.                         *)
(***************************************************************************)
EXTENDS Integers, Sequences, FiniteSets, TLC

VARIABLES argv, fs, initial, i, pc, stdout, stderr, exitcode, log,
          stdin, disk, context, work_unit_id, test_files, runner

vars == <<argv, fs, initial, i, pc, stdout, stderr, exitcode, log,
          stdin, disk, context, work_unit_id, test_files, runner>>

fixvars == <<argv, fs, initial, i, log>>

hookvars == <<stdin, disk, context, work_unit_id, test_files, runner>>

(***************************************************************************)
(* Atoms of the structural patterns (fix-fixtures.py lines 19-30).         *)
(***************************************************************************)
StartMinimal == "const minimalFoundation = {"

StartData == "const foundationData = {"

SchemaKey == "$schema:"

NotesField == "notes: { developmentStatus: [] },"

Newline == "\n"

CloseStmt == "};"

CloseBrace == "}"

Filler == "x"

replacement == "const minimalFoundation = createMinimalFoundation();"

replacement2 == "const foundationData = createMinimalFoundation();"

(***************************************************************************)
(* Atoms and strings of the renames (fix-fixtures.py lines 36-39).         *)
(***************************************************************************)
OldOverview == <<"w", "hatWeAreBuilding", ".projectOvervie", "w">>

NewOverview == <<"solutionSpace", ".overvie", "w">>

OldProblem == <<"w", "hyWeAreBuildingIt", ".problemDefinition.primary.description">>

NewProblem == <<"problemSpace", ".primaryProblem.description">>

OldWhat == <<"w", "hatWeAreBuilding">>

NewWhat == <<"solutionSpace">>

OldWhy == <<"w", "hyWeAreBuildingIt">>

NewWhy == <<"problemSpace">>

(***************************************************************************)
(* Character classes of the regular expressions, atom by atom.             *)
(***************************************************************************)
\* the atom holds a "}" character: [^}] cannot cross it
HasCloseBrace(a) == a \in {CloseBrace, CloseStmt, NotesField}

\* the atom is white space only: \s* crosses it
IsSpace(a) == a \in {Newline}

(***************************************************************************)
(* str.find / str.replace                                                  *)
(***************************************************************************)
OccursAt(s, old, p) ==
    /\ p >= 1
    /\ p + Len(old) - 1 <= Len(s)
    /\ \A k \in 1..Len(old) : s[p + k - 1] = old[k]

\* every position where `old` occurs in s, overlapping occurrences included
Occurrences(s, old) == {p \in 1..Len(s) : OccursAt(s, old, p)}

RECURSIVE ReplaceFrom(_, _, _, _)
ReplaceFrom(s, old, new, p) ==
    IF p > Len(s) THEN <<>>
    ELSE IF OccursAt(s, old, p)
         THEN new \o ReplaceFrom(s, old, new, p + Len(old))
         ELSE <<s[p]>> \o ReplaceFrom(s, old, new, p + 1)

\* a replace that stops after the first occurrence, as content.replace(old, new, 1)
str_replace_first(s, old, new) ==
    IF Occurrences(s, old) = {} THEN s
    ELSE LET p == CHOOSE q \in Occurrences(s, old) : \A r \in Occurrences(s, old) : q <= r
         IN SubSeq(s, 1, p - 1) \o new \o SubSeq(s, p + Len(old), Len(s))

\* content.replace(old, new): every occurrence found scanning left to right,
\* the scan resuming after the occurrence it replaced
str_replace(s, old, new) == ReplaceFrom(s, old, new, 1)

(***************************************************************************)
(* The structural patterns                                                  *)
(*   const NAME = \{[^}]*?\$schema:.*?notes: \{ developmentStatus: \[\] \},\s*\}; *)
(* under re.DOTALL.  A match that begins at p is a triple (q, n, e):       *)
(* "$schema:" at q with no "}" between p and q, the notes field at n > q,  *)
(* white space only between n and e, and "};" at e.  Both quantifiers are  *)
(* lazy, so the engine takes the least q that can be completed and for it  *)
(* the least n.                                                            *)
(***************************************************************************)
\* the position of the "};" that \s*\}; reaches from the notes field at n, or 0
SpaceThenClose(s, n) ==
    LET ends == {e \in (n + 1)..Len(s) :
                    /\ s[e] = CloseStmt
                    /\ \A k \in (n + 1)..(e - 1) : IsSpace(s[k])}
    IN IF ends = {} THEN 0 ELSE CHOOSE e \in ends : TRUE

\* the positions n where  notes: { developmentStatus: [] },\s*};  begins after q
EndMarkersAfter(s, q) ==
    {n \in (q + 1)..Len(s) : s[n] = NotesField /\ SpaceThenClose(s, n) # 0}

\* the positions q that [^}]*?\$schema: can reach from the start token at p
SchemaAfter(s, p) ==
    {q \in (p + 1)..Len(s) :
        /\ s[q] = SchemaKey
        /\ \A k \in (p + 1)..(q - 1) : ~HasCloseBrace(s[k])}

Least(S) == CHOOSE x \in S : \A y \in S : x <= y

\* the last position of the match of the pattern that begins at p, or 0
MatchEnd(s, start, p) ==
    IF p > Len(s) \/ s[p] # start THEN 0
    ELSE LET qs == {q \in SchemaAfter(s, p) : EndMarkersAfter(s, q) # {}}
         IN IF qs = {} THEN 0
            ELSE SpaceThenClose(s, Least(EndMarkersAfter(s, Least(qs))))

RECURSIVE SubFrom(_, _, _, _)
SubFrom(s, start, repl, p) ==
    IF p > Len(s) THEN <<>>
    ELSE LET e == MatchEnd(s, start, p)
         IN IF e # 0
            THEN <<repl>> \o SubFrom(s, start, repl, e + 1)
            ELSE <<s[p]>> \o SubFrom(s, start, repl, p + 1)

\* re.sub(pattern, replacement, content, flags=re.DOTALL)
re_sub(start, repl, s) == SubFrom(s, start, repl, 1)

\* the spans [first, last] that re.sub replaces in s
RECURSIVE SpansFrom(_, _, _)
SpansFrom(s, start, p) ==
    IF p > Len(s) THEN {}
    ELSE LET e == MatchEnd(s, start, p)
         IN IF e # 0
            THEN {<<p, e>>} \cup SpansFrom(s, start, e + 1)
            ELSE SpansFrom(s, start, p + 1)

(***************************************************************************)
(* fix_file: what is written back for a file that holds `content`          *)
(***************************************************************************)
StructuralPhase(content) ==
    re_sub(StartData, replacement2, re_sub(StartMinimal, replacement, content))

\* the general renames applied before the specific ones
RenamePhaseGeneralFirst(content) ==
    str_replace(
      str_replace(
        str_replace(
          str_replace(content, OldWhat, NewWhat),
          OldWhy, NewWhy),
        OldOverview, NewOverview),
      OldProblem, NewProblem)

\* the last rename left out
RenamePhaseWithoutWhy(content) ==
    str_replace(
      str_replace(
        str_replace(content, OldOverview, NewOverview),
        OldProblem, NewProblem),
      OldWhat, NewWhat)

RenamePhase(content) ==
    str_replace(
      str_replace(
        str_replace(
          str_replace(content, OldOverview, NewOverview),
          OldProblem, NewProblem),
        OldWhat, NewWhat),
      OldWhy, NewWhy)

fix_file(content) == RenamePhase(StructuralPhase(content))

(***************************************************************************)
(* The driver of fix-fixtures.py (lines 46-56) and the files it works on.  *)
(* A file is readable and writable ("rw"), readable only ("ro": open(..,   *)
(* 'w') raises and leaves it as it was) or not readable ("none": missing   *)
(* or unreadable, open(.., 'r') raises).                                   *)
(***************************************************************************)
Locations == {"a.ts", "b.ts", "c.ts"}

Perms == {"rw", "ro", "none"}

MaxArgs == 3

MaxStructLen == 5

MaxRenameTokens == 4

MaxTokens == 4

Texts(alphabet, n) == UNION {[1..k -> alphabet] : k \in 0..n}

StructAlphabet ==
    {StartMinimal, StartData, SchemaKey, NotesField, Newline, CloseStmt, CloseBrace, Filler}

\* the texts of the rename specification are made of the four old strings
\* whole, of each of their atoms alone, and of filler
RenameTokens ==
    {OldOverview, OldProblem, OldWhat, OldWhy,
     <<"w">>, <<"hatWeAreBuilding">>, <<".projectOvervie">>, <<"hyWeAreBuildingIt">>,
     <<".problemDefinition.primary.description">>, <<"foo.">>, <<".bar">>}

\* what the files of a batch hold: an old fixture with old field paths after
\* it, and a text the rewriter leaves as it is
DriverContents ==
    {<<StartMinimal, SchemaKey, NotesField, Newline, CloseStmt>> \o OldOverview,
     <<Filler>>}

HookIdle ==
    /\ stdin = <<>>
    /\ disk = {}
    /\ context = <<>>
    /\ work_unit_id = <<>>
    /\ test_files = <<>>
    /\ runner = <<>>

InitProcess ==
    /\ pc = "main"
    /\ i = 1
    /\ stdout = <<>>
    /\ stderr = <<>>
    /\ exitcode = -1
    /\ log = <<>>

\* the alphabet of whole tokens: the two start tokens, "$schema:", the end
\* marker, "}", the four old rename strings, and the two tails that make an
\* old rename string begin at the final "w" of the one before
Tokens ==
    {<<StartMinimal>>, <<StartData>>, <<SchemaKey>>,
     <<NotesField, Newline, CloseStmt>>, <<CloseBrace>>,
     OldOverview, OldProblem, OldWhat, OldWhy,
     <<"hatWeAreBuilding">>,
     <<"hyWeAreBuildingIt", ".problemDefinition.primary.description">>}

RECURSIVE Flatten(_)
Flatten(ts) == IF ts = <<>> THEN <<>> ELSE Head(ts) \o Flatten(Tail(ts))

TokenTexts == {Flatten(ts) : ts \in Texts(Tokens, MaxTokens)}

RenameTexts == {Flatten(ts) : ts \in Texts(RenameTokens, MaxRenameTokens)}

\* fix-fixtures.py run on the one file a.ts, named once or twice
InitText(args, inputs) ==
    /\ argv = args
    /\ \E t \in inputs : fs = [l \in {"a.ts"} |-> [perm |-> "rw", text |-> t]]
    /\ initial = fs
    /\ InitProcess
    /\ HookIdle

InitStruct == InitText(<<"a.ts">>, Texts(StructAlphabet, MaxStructLen))

InitRename == InitText(<<"a.ts">>, RenameTexts)

\* fix-fixtures.py a.ts a.ts: the file is rewritten, then rewritten again; the
\* texts are those made of whole tokens and those made of the structural atoms,
\* filler and white space included
InitIdem ==
    InitText(<<"a.ts", "a.ts">>, TokenTexts \cup Texts(StructAlphabet, MaxTokens))

InitDriver ==
    /\ argv \in Texts(Locations, MaxArgs)
    /\ fs \in [Locations -> [perm : Perms, text : DriverContents]]
    /\ initial = fs
    /\ InitProcess
    /\ HookIdle

\* the usage branch leaving with exit code 0
UsageExitsZero ==
    /\ pc = "main"
    /\ Len(argv) = 0
    /\ stdout' = Append(stdout, <<"Usage">>)
    /\ exitcode' = 0
    /\ pc' = "exited"
    /\ UNCHANGED <<argv, fs, initial, i, stderr, log>>
    /\ UNCHANGED <<stdin, disk, context, work_unit_id, test_files, runner>>

\* lines 47-49: no file argument
Usage ==
    /\ pc = "main"
    /\ Len(argv) = 0
    /\ stdout' = Append(stdout, <<"Usage">>)
    /\ exitcode' = 1
    /\ pc' = "exited"
    /\ UNCHANGED <<argv, fs, initial, i, stderr, log>>
    /\ UNCHANGED hookvars

\* lines 51-53 with fix_file (lines 9-44) returning: read, rewrite, write back, report
FixOk ==
    /\ pc = "main"
    /\ i <= Len(argv)
    /\ fs[argv[i]].perm = "rw"
    /\ LET content == fix_file(fs[argv[i]].text)
       IN /\ fs' = [fs EXCEPT ![argv[i]].text = content]
          /\ log' = log \o << <<"read", i>>, <<"write", i, content>> >>
    /\ stdout' = Append(stdout, <<"Fixed", argv[i]>>)
    /\ i' = i + 1
    /\ UNCHANGED <<argv, initial, pc, stderr, exitcode>>
    /\ UNCHANGED hookvars

\* the file opened for writing before it is read: it is left empty
FixReadFailTruncates ==
    /\ pc = "main"
    /\ i <= Len(argv)
    /\ fs[argv[i]].perm = "none"
    /\ fs' = [fs EXCEPT ![argv[i]].text = <<>>]
    /\ log' = log \o << <<"write", i, <<>>>>, <<"read_failed", i>> >>
    /\ stdout' = Append(stdout, <<"Error fixing", argv[i]>>)
    /\ exitcode' = 1
    /\ pc' = "exited"
    /\ UNCHANGED <<argv, initial, i, stderr>>
    /\ UNCHANGED <<stdin, disk, context, work_unit_id, test_files, runner>>

\* lines 10, 54-56: open(filepath, 'r') raises
FixReadFail ==
    /\ pc = "main"
    /\ i <= Len(argv)
    /\ fs[argv[i]].perm = "none"
    /\ log' = Append(log, <<"read_failed", i>>)
    /\ stdout' = Append(stdout, <<"Error fixing", argv[i]>>)
    /\ exitcode' = 1
    /\ pc' = "exited"
    /\ UNCHANGED <<argv, fs, initial, i, stderr>>
    /\ UNCHANGED hookvars

\* the except branch without its sys.exit(1): the loop goes on
FixWriteFailContinues ==
    /\ pc = "main"
    /\ i <= Len(argv)
    /\ fs[argv[i]].perm = "ro"
    /\ log' = log \o << <<"read", i>>, <<"write_failed", i>> >>
    /\ stdout' = Append(stdout, <<"Error fixing", argv[i]>>)
    /\ i' = i + 1
    /\ UNCHANGED <<argv, fs, initial, pc, stderr, exitcode>>
    /\ UNCHANGED <<stdin, disk, context, work_unit_id, test_files, runner>>

\* lines 10-41, 54-56: the file is read and rewritten in memory, open(filepath, 'w') raises
FixWriteFail ==
    /\ pc = "main"
    /\ i <= Len(argv)
    /\ fs[argv[i]].perm = "ro"
    /\ log' = log \o << <<"read", i>>, <<"write_failed", i>> >>
    /\ stdout' = Append(stdout, <<"Error fixing", argv[i]>>)
    /\ exitcode' = 1
    /\ pc' = "exited"
    /\ UNCHANGED <<argv, fs, initial, i, stderr>>
    /\ UNCHANGED hookvars

\* the loop of line 51 is over: the script ends, exit status 0
Finish ==
    /\ pc = "main"
    /\ Len(argv) > 0
    /\ i > Len(argv)
    /\ exitcode' = 0
    /\ pc' = "exited"
    /\ UNCHANGED <<argv, fs, initial, i, stdout, stderr, log>>
    /\ UNCHANGED hookvars

NextText == FixOk \/ Finish

NextDriver == Usage \/ FixOk \/ FixReadFail \/ FixWriteFail \/ Finish

SpecStruct == InitStruct /\ [][NextText]_vars

SpecRename == InitRename /\ [][NextText]_vars

SpecIdem == InitIdem /\ [][NextText]_vars

SpecDriver == InitDriver /\ [][NextDriver]_vars

(***************************************************************************)
(* The hook examples/hooks/run-tests.py.                                   *)
(*                                                                         *)
(* The payload on standard input either is no JSON text or denotes a JSON  *)
(* document.  A document is an object, with or without the key             *)
(* "workUnitId", or a value of another type.  A work-unit identifier and a *)
(* file name are sequences of characters.                                  *)
(***************************************************************************)
MaxIdLen == 3

IdChars == {"A", "-", "1", "*"}

JsonNull == [type |-> "null", n |-> 0, s |-> <<>>]

JsonNumber(k) == [type |-> "number", n |-> k, s |-> <<>>]

JsonString(t) == [type |-> "string", n |-> 0, s |-> t]

\* the values "workUnitId" takes: null, 0, 123, "" and the non-empty identifiers
Values ==
    {JsonNull, JsonNumber(0), JsonNumber(123)}
        \cup {JsonString(t) : t \in Texts(IdChars, MaxIdLen)}

\* bool(value) in Python
Truthy(v) ==
    CASE v.type = "null" -> FALSE
      [] v.type = "number" -> v.n # 0
      [] v.type = "string" -> v.s # <<>>

Documents ==
    {[type |-> t, has |-> FALSE, wid |-> JsonNull] : t \in {"array", "string", "number", "null", "object"}}
        \cup {[type |-> "object", has |-> TRUE, wid |-> v] : v \in Values}

NoDocument == [type |-> "none", has |-> FALSE, wid |-> JsonNull]

Payloads ==
    {[valid |-> FALSE, doc |-> NoDocument]} \cup {[valid |-> TRUE, doc |-> d] : d \in Documents}

\* the names (without ".test.ts") of the files that lie in a __tests__ directory under src
TestFiles ==
    {<<"a", "-", "1">>, <<"A", "-", "1">>, <<"x", "a", "-", "1", "1">>, <<"a">>}

\* the exit codes of the test runner, and -9 for a runner that SIGKILL ended
ReturnCodes == {0, 1, 2, -9}

RunnerOutputs == {"", "text"}

\* str.lower()
LowerChar(c) == IF c = "A" THEN "a" ELSE c

lower(t) == [k \in 1..Len(t) |-> LowerChar(t[k])]

\* line 32: work_unit_id.lower().replace('-', '-')
test_pattern(id) == str_replace(lower(id), <<"-">>, <<"-">>)

\* line 33: the part *{test_pattern}* of the glob pattern, before ".test.ts"
name_pattern(id) == <<"*">> \o test_pattern(id) \o <<"*">>

\* pathlib (before Python 3.13) raises ValueError for "**" inside a path component
RejectedByGlob(pat) == \E k \in 1..(Len(pat) - 1) : pat[k] = "*" /\ pat[k + 1] = "*"

\* fnmatch of a file name against a pattern, "*" standing for any characters
RECURSIVE GlobMatch(_, _)
GlobMatch(pat, name) ==
    IF pat = <<>> THEN name = <<>>
    ELSE IF Head(pat) = "*"
         THEN GlobMatch(Tail(pat), name) \/ (name # <<>> /\ GlobMatch(pat, Tail(name)))
         ELSE name # <<>> /\ Head(name) = Head(pat) /\ GlobMatch(Tail(pat), Tail(name))

\* line 33: the files that **/__tests__/*{test_pattern}*.test.ts matches
Matching(files, id) == {f \in files : GlobMatch(name_pattern(id), f)}

\* the orders in which glob may list the files of S
Orders(S) ==
    {o \in [1..Cardinality(S) -> S] : \A a, b \in 1..Cardinality(S) : a # b => o[a] # o[b]}

\* what sys.exit(n) makes the exit status of the process
ExitStatus(n) == n % 256

FixIdle ==
    /\ argv = <<>>
    /\ fs = <<>>
    /\ initial = <<>>
    /\ i = 1
    /\ log = <<>>

InitHook ==
    /\ stdin \in Payloads
    /\ disk \in SUBSET TestFiles
    /\ context = NoDocument
    /\ work_unit_id = JsonNull
    /\ test_files = <<>>
    /\ runner = <<>>
    /\ pc = "parse"
    /\ stdout = <<>>
    /\ stderr = <<>>
    /\ exitcode = -1
    /\ FixIdle

\* lines 15-21: json.loads raises JSONDecodeError
ParseFail ==
    /\ pc = "parse"
    /\ ~stdin.valid
    /\ stderr' = Append(stderr, <<"Failed to parse JSON context">>)
    /\ exitcode' = ExitStatus(1)
    /\ pc' = "exited"
    /\ UNCHANGED <<stdin, disk, context, work_unit_id, test_files, runner, stdout>>
    /\ UNCHANGED fixvars

\* lines 15-18: json.loads returns
Parse ==
    /\ pc = "parse"
    /\ stdin.valid
    /\ context' = stdin.doc
    /\ pc' = "extract"
    /\ UNCHANGED <<stdin, disk, work_unit_id, test_files, runner, stdout, stderr, exitcode>>
    /\ UNCHANGED fixvars

\* line 24: context is no dict, context.get raises AttributeError, which nothing
\* catches: the traceback goes to standard error and the exit status is 1
GetRaises ==
    /\ pc = "extract"
    /\ context.type # "object"
    /\ stderr' = Append(stderr, <<"Traceback", "AttributeError">>)
    /\ exitcode' = 1
    /\ pc' = "exited"
    /\ UNCHANGED <<stdin, disk, context, work_unit_id, test_files, runner, stdout>>
    /\ UNCHANGED fixvars

\* lines 24-28: the key is absent (get returns None) or its value is falsy
NoWorkUnitId ==
    /\ pc = "extract"
    /\ context.type = "object"
    /\ ~context.has \/ ~Truthy(context.wid)
    /\ work_unit_id' = IF context.has THEN context.wid ELSE JsonNull
    /\ stderr' = Append(stderr, <<"No workUnitId in context">>)
    /\ exitcode' = ExitStatus(1)
    /\ pc' = "exited"
    /\ UNCHANGED <<stdin, disk, context, test_files, runner, stdout>>
    /\ UNCHANGED fixvars

\* lines 24-26: the value is truthy
Extract ==
    /\ pc = "extract"
    /\ context.type = "object"
    /\ context.has /\ Truthy(context.wid)
    /\ work_unit_id' = context.wid
    /\ pc' = "find"
    /\ UNCHANGED <<stdin, disk, context, test_files, runner, stdout, stderr, exitcode>>
    /\ UNCHANGED fixvars

\* line 32: work_unit_id is no str, work_unit_id.lower raises AttributeError
LowerRaises ==
    /\ pc = "find"
    /\ work_unit_id.type # "string"
    /\ stderr' = Append(stderr, <<"Traceback", "AttributeError">>)
    /\ exitcode' = 1
    /\ pc' = "exited"
    /\ UNCHANGED <<stdin, disk, context, work_unit_id, test_files, runner, stdout>>
    /\ UNCHANGED fixvars

\* line 33: glob rejects the pattern with ValueError, which nothing catches
GlobRaises ==
    /\ pc = "find"
    /\ work_unit_id.type = "string"
    /\ RejectedByGlob(name_pattern(work_unit_id.s))
    /\ stderr' = Append(stderr, <<"Traceback", "ValueError">>)
    /\ exitcode' = 1
    /\ pc' = "exited"
    /\ UNCHANGED <<stdin, disk, context, work_unit_id, test_files, runner, stdout>>
    /\ UNCHANGED fixvars

\* lines 32-37: glob finds nothing
NoTestFiles ==
    /\ pc = "find"
    /\ work_unit_id.type = "string"
    /\ ~RejectedByGlob(name_pattern(work_unit_id.s))
    /\ Matching(disk, work_unit_id.s) = {}
    /\ test_files' = <<>>
    /\ stdout' = Append(stdout, <<"No test files found for", work_unit_id.s>>)
    /\ exitcode' = ExitStatus(0)
    /\ pc' = "exited"
    /\ UNCHANGED <<stdin, disk, context, work_unit_id, runner, stderr>>
    /\ UNCHANGED fixvars

\* lines 32-40: glob lists the matching files in some order
FindTests ==
    /\ pc = "find"
    /\ work_unit_id.type = "string"
    /\ ~RejectedByGlob(name_pattern(work_unit_id.s))
    /\ Matching(disk, work_unit_id.s) # {}
    /\ test_files' \in Orders(Matching(disk, work_unit_id.s))
    /\ stdout' = Append(stdout, <<"Running tests for", work_unit_id.s>>)
    /\ pc' = "run"
    /\ UNCHANGED <<stdin, disk, context, work_unit_id, runner, stderr, exitcode>>
    /\ UNCHANGED fixvars

\* the hook leaving with exit code 0 whatever the runner returned
RunTestsExitsZero ==
    /\ pc = "run"
    /\ \E rc \in ReturnCodes, out \in RunnerOutputs, err \in RunnerOutputs :
          /\ runner' = Append(runner, [file |-> test_files[1], returncode |-> rc,
                                       stdout |-> out, stderr |-> err])
          /\ stdout' = IF out # "" THEN Append(stdout, <<"relayed", out>>) ELSE stdout
          /\ stderr' = IF err # "" THEN Append(stderr, <<"relayed", err>>) ELSE stderr
          /\ exitcode' = 0
    /\ pc' = "exited"
    /\ UNCHANGED <<stdin, disk, context, work_unit_id, test_files>>
    /\ UNCHANGED <<argv, fs, initial, i, log>>

\* lines 42-56: npm test -- test_files[0] runs to its end, its output is
\* relayed, its return code is handed to sys.exit
RunTests ==
    /\ pc = "run"
    /\ \E rc \in ReturnCodes, out \in RunnerOutputs, err \in RunnerOutputs :
          /\ runner' = Append(runner, [file |-> test_files[1], returncode |-> rc,
                                       stdout |-> out, stderr |-> err])
          /\ stdout' = IF out # "" THEN Append(stdout, <<"relayed", out>>) ELSE stdout
          /\ stderr' = IF err # "" THEN Append(stderr, <<"relayed", err>>) ELSE stderr
          /\ exitcode' = ExitStatus(rc)
    /\ pc' = "exited"
    /\ UNCHANGED <<stdin, disk, context, work_unit_id, test_files>>
    /\ UNCHANGED fixvars

\* line 42: npm cannot be started, subprocess.run raises OSError, which nothing catches
RunRaises ==
    /\ pc = "run"
    /\ stderr' = Append(stderr, <<"Traceback", "OSError">>)
    /\ exitcode' = 1
    /\ pc' = "exited"
    /\ UNCHANGED <<stdin, disk, context, work_unit_id, test_files, runner, stdout>>
    /\ UNCHANGED fixvars

NextHook ==
    \/ ParseFail \/ Parse \/ GetRaises \/ NoWorkUnitId \/ Extract
    \/ LowerRaises \/ GlobRaises \/ NoTestFiles \/ FindTests \/ RunTests \/ RunRaises

SpecHook == InitHook /\ [][NextHook]_vars

(***************************************************************************)
(* What the claims speak of                                                *)
(***************************************************************************)
Range(s) == {s[k] : k \in DOMAIN s}

\* the entries of log for completed writes, and the texts written
WriteEvents == {k \in DOMAIN log : log[k][1] = "write"}

\* the text a.ts held when the tool started, and what the first run wrote back
Input == initial["a.ts"].text

FirstWritten == log[Least(WriteEvents)][3]

OldStrings == {OldOverview, OldProblem, OldWhat, OldWhy}

\* neither structural pattern matches t and none of the old strings occurs in it
Migrated(t) ==
    /\ SpansFrom(t, StartMinimal, 1) = {}
    /\ SpansFrom(t, StartData, 1) = {}
    /\ \A old \in OldStrings : Occurrences(t, old) = {}

(***************************************************************************)
(* C1: a second run of fix_file on a file writes back exactly what the     *)
(* first run wrote, and what a run writes holds no match of either         *)
(* structural pattern and no occurrence of any of the four old strings.    *)
(***************************************************************************)
C1_Idempotent ==
    /\ \A j, k \in WriteEvents :
          j < k /\ argv[log[j][2]] = argv[log[k][2]] => log[k][3] = log[j][3]
    /\ \A k \in WriteEvents : Migrated(log[k][3])

\* both runs are over, and the first one replaced a fixture and renamed a path
C1_Witness ==
    /\ pc = "exited"
    /\ Cardinality(WriteEvents) = 2
    /\ SpansFrom(Input, StartMinimal, 1) # {}
    /\ replacement \in Range(fs["a.ts"].text)
    /\ "solutionSpace" \in Range(fs["a.ts"].text)

(***************************************************************************)
(* C2: when the text holds exactly one construct that starts with          *)
(* "const minimalFoundation = {" and ends with the end marker, whatever    *)
(* lies between, fix_file replaces exactly that span by the replacement    *)
(* and leaves the text before and after it as it was.                      *)
(***************************************************************************)
\* the text holds one start token, one notes field and one "};", in this order,
\* the last two forming the end marker, and no other start token
OneConstruct(t, p, n, e) ==
    /\ {k \in 1..Len(t) : t[k] = StartMinimal} = {p}
    /\ {k \in 1..Len(t) : t[k] = NotesField} = {n}
    /\ {k \in 1..Len(t) : t[k] = CloseStmt} = {e}
    /\ {k \in 1..Len(t) : t[k] = StartData} = {}
    /\ p < n
    /\ SpaceThenClose(t, n) = e

C2_ExactSpan ==
    WriteEvents # {} =>
      \A p, n, e \in 1..Len(Input) :
        OneConstruct(Input, p, n, e) =>
          FirstWritten = SubSeq(Input, 1, p - 1) \o <<replacement>>
                           \o SubSeq(Input, e + 1, Len(Input))

(***************************************************************************)
(* C9: a span that a structural substitution replaces ends no later than   *)
(* the closing "}" or "};" of the construct its start token opens: it      *)
(* never runs on into a later construct.                                   *)
(***************************************************************************)
Opens(a) == a \in {StartMinimal, StartData}

Closes(a) == a \in {CloseBrace, CloseStmt}

\* the position where the brace that the start token at p opens is closed,
\* Len(s) + 1 when it never is
RECURSIVE ClosedAt(_, _, _)
ClosedAt(s, k, depth) ==
    IF k > Len(s) THEN Len(s) + 1
    ELSE IF Closes(s[k])
         THEN IF depth = 1 THEN k ELSE ClosedAt(s, k + 1, depth - 1)
         ELSE IF Opens(s[k]) THEN ClosedAt(s, k + 1, depth + 1)
              ELSE ClosedAt(s, k + 1, depth)

WithinConstruct(s, start) ==
    \A span \in SpansFrom(s, start, 1) : span[2] <= ClosedAt(s, span[1] + 1, 1)

C9_NoOverBroadMatch ==
    WriteEvents # {} =>
      /\ WithinConstruct(Input, StartMinimal)
      /\ WithinConstruct(re_sub(StartMinimal, replacement, Input), StartData)

(***************************************************************************)
(* C3: a general rename never pre-empts the specific one that shares its   *)
(* prefix.  Every occurrence of "whatWeAreBuilding.projectOverview" comes  *)
(* out as "solutionSpace.overview" and none as                             *)
(* "solutionSpace.projectOverview"; every occurrence of                    *)
(* "whyWeAreBuildingIt.problemDefinition.primary.description" comes out as *)
(* "problemSpace.primaryProblem.description" and none as                   *)
(* "problemSpace.problemDefinition.primary.description".                   *)
(***************************************************************************)
PreEmptedOverview == <<"solutionSpace", ".projectOvervie", "w">>

PreEmptedProblem == <<"problemSpace", ".problemDefinition.primary.description">>

SpecificRenamed(in, out) ==
    /\ Cardinality(Occurrences(out, NewOverview)) = Cardinality(Occurrences(in, OldOverview))
    /\ Cardinality(Occurrences(out, NewProblem)) = Cardinality(Occurrences(in, OldProblem))
    /\ Occurrences(out, PreEmptedOverview) = {}
    /\ Occurrences(out, PreEmptedProblem) = {}

\* the claim as it stands: for every input text
C3_SpecificFirst_AllTexts ==
    WriteEvents # {} => SpecificRenamed(StructuralPhase(Input), FirstWritten)

\* the final "w" of an occurrence of "whatWeAreBuilding.projectOverview" is
\* also the first character of another old string
SharedW(t) ==
    \E p \in Occurrences(t, OldOverview) :
        p + 3 \in Occurrences(t, OldWhat) \cup Occurrences(t, OldWhy)

\* C3 as amended: for every text the renames are applied to in which no
\* occurrence of "whatWeAreBuilding.projectOverview" shares its final "w" with
\* a following old string, every occurrence of a specific old string comes out
\* as its specific new string and none as the general one followed by the old
\* tail.
C3_SpecificFirst ==
    WriteEvents # {} /\ ~SharedW(StructuralPhase(Input))
        => SpecificRenamed(StructuralPhase(Input), FirstWritten)

\* the run on foo.whatWeAreBuilding.projectOverview.bar is over
C3_Witness ==
    /\ pc = "exited"
    /\ Input = <<"foo.">> \o OldOverview \o <<".bar">>
    /\ fs["a.ts"].text = <<"foo.">> \o NewOverview \o <<".bar">>

(***************************************************************************)
(* C10: the four replace steps in the order of the code give the text that *)
(* the same four renames give when applied longest old string first:       *)
(* 56 characters (whyWeAreBuildingIt.problemDefinition.primary.description)*)
(* 33 (whatWeAreBuilding.projectOverview), 18 (whyWeAreBuildingIt),        *)
(* 17 (whatWeAreBuilding).                                                 *)
(***************************************************************************)
RenameLongestFirst(content) ==
    str_replace(
      str_replace(
        str_replace(
          str_replace(content, OldProblem, NewProblem),
          OldOverview, NewOverview),
        OldWhy, NewWhy),
      OldWhat, NewWhat)

\* the claim as it stands: for every input text, overlapping occurrences included
C10_LongestFirst_AllTexts ==
    WriteEvents # {} => FirstWritten = RenameLongestFirst(StructuralPhase(Input))

\* an occurrence of "whatWeAreBuilding.projectOverview" whose final "w" begins an
\* occurrence of "whyWeAreBuildingIt.problemDefinition.primary.description"
OverviewRunsIntoProblem(t) ==
    \E p \in Occurrences(t, OldOverview) : p + 3 \in Occurrences(t, OldProblem)

\* C10 as amended: for every input text in which no occurrence of
\* "whatWeAreBuilding.projectOverview" shares its final "w" with an occurrence of
\* "whyWeAreBuildingIt.problemDefinition.primary.description", the coded order
\* and the longest-first order give the same text.
C10_LongestFirst ==
    WriteEvents # {} /\ ~OverviewRunsIntoProblem(Input) =>
        FirstWritten = RenameLongestFirst(StructuralPhase(Input))

\* the run is over on a text where "whatWeAreBuilding.projectOverview" shares its
\* final "w" with a following "whyWeAreBuildingIt"
C10_Witness ==
    /\ pc = "exited"
    /\ Input = OldOverview \o <<"hyWeAreBuildingIt">>
    /\ fs["a.ts"].text = <<"solutionSpace", ".overvie", "problemSpace">>

(***************************************************************************)
(* The driver: what happened to the k-th location of argv                  *)
(***************************************************************************)
LoggedAt(op, k) == \E e \in DOMAIN log : log[e][1] = op /\ log[e][2] = k

ReadAt(k) == LoggedAt("read", k)

WrittenAt(k) == LoggedAt("write", k)

WriteAttemptedAt(k) == LoggedAt("write", k) \/ LoggedAt("write_failed", k)

FailedAt(k) == LoggedAt("read_failed", k) \/ LoggedAt("write_failed", k)

TouchedAt(k) == \E e \in DOMAIN log : log[e][2] = k

IsFixed(line) == line[1] = "Fixed"

IsError(line) == line[1] = "Error fixing"

Printed == stdout \o stderr

\* the lines "Fixed <location>" for the first n locations, in argument order
FixedLines(n) == [k \in 1..n |-> <<"Fixed", argv[k]>>]

\* the files after the driver has run on locs, starting from the files f
RECURSIVE DriverRun(_, _)
DriverRun(f, locs) ==
    IF locs = <<>> \/ f[Head(locs)].perm # "rw" THEN f
    ELSE DriverRun([f EXCEPT ![Head(locs)].text = fix_file(@)], Tail(locs))

Without(locs, k) == SubSeq(locs, 1, k - 1) \o SubSeq(locs, k + 1, Len(locs))

(***************************************************************************)
(* C4: when a location cannot be read, no write is attempted on it, and    *)
(* every other location, before and after it, is read, rewritten and       *)
(* written back as in a run from which the failing location is absent.     *)
(***************************************************************************)
\* the claim as it stands: the batch goes on after the failure
C4_TolerantBatch ==
    pc = "exited" =>
      \A k \in 1..Len(argv) :
        LoggedAt("read_failed", k) =>
          /\ ~WriteAttemptedAt(k)
          /\ \A j \in (1..Len(argv)) \ {k} :
                (\A m \in (1..j) \ {k} : initial[argv[m]].perm = "rw")
                    => ReadAt(j) /\ WrittenAt(j)
          /\ fs = DriverRun(initial, Without(argv, k))

\* C4 as amended: when a location cannot be read, no write is attempted on it
\* and every location before it has been read, rewritten and written back as
\* in a run from which the failing location is absent; the locations after it
\* are not processed.
C4_NoWriteOnReadFailure ==
    pc = "exited" =>
      \A k \in 1..Len(argv) :
        LoggedAt("read_failed", k) =>
          /\ ~WriteAttemptedAt(k)
          /\ fs[argv[k]] = initial[argv[k]]
          /\ \A j \in 1..(k - 1) : ReadAt(j) /\ WrittenAt(j)
          /\ \A j \in (k + 1)..Len(argv) : ~TouchedAt(j)
          /\ fs = DriverRun(initial, SubSeq(argv, 1, k - 1))

\* the second of three locations could not be read, the first one was rewritten
C4_Witness ==
    /\ pc = "exited"
    /\ Len(argv) = 3
    /\ LoggedAt("read_failed", 2)
    /\ fs[argv[1]].text # initial[argv[1]].text

(***************************************************************************)
(* C5: locations are processed in argument order; when one raises, one     *)
(* line "Error fixing <location>" is printed and the process ends with     *)
(* exit code 1; no later location is read, written or reported, and every  *)
(* earlier one has been written back and reported "Fixed <location>", in   *)
(* input order.                                                            *)
(***************************************************************************)
C5_FailFast ==
    /\ \A a, b \in DOMAIN log : a < b => log[a][2] <= log[b][2]
    /\ \A k \in 1..Len(argv) : TouchedAt(k) => k <= i
    /\ SelectSeq(Printed, IsFixed) = FixedLines(i - 1)
    /\ \A k \in 1..(i - 1) : ReadAt(k) /\ WrittenAt(k) /\ ~FailedAt(k)
    /\ \A k \in 1..Len(argv) :
          FailedAt(k) =>
            /\ pc = "exited"
            /\ exitcode = 1
            /\ k = i
            /\ SelectSeq(Printed, IsError) = << <<"Error fixing", argv[k]>> >>
            /\ \A j \in (k + 1)..Len(argv) : ~TouchedAt(j)
    /\ (\A k \in 1..Len(argv) : ~FailedAt(k)) => SelectSeq(Printed, IsError) = <<>>

\* the second of three locations raised
C5_Witness ==
    /\ pc = "exited"
    /\ Len(argv) = 3
    /\ FailedAt(2)
    /\ WrittenAt(1)

(***************************************************************************)
(* C6: the process exits with code 1 when no location is given (the usage  *)
(* message is printed and no file is touched) or when the processing of a  *)
(* location fails, and with code 0 exactly when at least one location is   *)
(* given and every location was read and written.                          *)
(***************************************************************************)
C6_ExitStatus ==
    /\ pc # "exited" => exitcode = -1
    /\ pc = "exited" =>
        /\ exitcode \in {0, 1}
        /\ exitcode = 0 <=>
              (Len(argv) >= 1 /\ \A k \in 1..Len(argv) : ReadAt(k) /\ WrittenAt(k))
        /\ Len(argv) = 0 =>
              exitcode = 1 /\ Printed = << <<"Usage">> >> /\ log = <<>> /\ fs = initial
        /\ (\E k \in 1..Len(argv) : FailedAt(k)) => exitcode = 1

\* two or more locations, all rewritten, exit code 0
C6_Witness ==
    /\ pc = "exited"
    /\ exitcode = 0
    /\ Len(argv) >= 2
    /\ \A k \in 1..Len(argv) : WrittenAt(k)

(***************************************************************************)
(* C7: the usage message and every "Error fixing" line go to standard      *)
(* error; standard output carries only "Fixed <location>" lines, one per   *)
(* location written.                                                       *)
(***************************************************************************)
C7_OutputChannels ==
    /\ \A k \in DOMAIN stdout : IsFixed(stdout[k])
    /\ Len(stdout) = Cardinality(WriteEvents)
    /\ pc = "exited" /\ Len(argv) = 0 => stderr = << <<"Usage">> >>
    /\ \A k \in 1..Len(argv) :
          FailedAt(k) => \E e \in DOMAIN stderr : stderr[e] = <<"Error fixing", argv[k]>>

(***************************************************************************)
(* C8: the hook ends in exactly one of three ways.  (1) The payload is no  *)
(* valid JSON or has no, or an empty, workUnitId: a diagnostic goes to     *)
(* standard error, the exit code is 1, the runner is never invoked.        *)
(* (2) No test file matches the lower-cased, hyphen-preserving pattern:    *)
(* the notice "No test files found" is printed, the exit code is 0, the    *)
(* runner is never invoked.  (3) Otherwise the runner is invoked once, on  *)
(* the first matching file, its output is relayed after it has finished    *)
(* and the exit code of the hook is the runner's.                          *)
(***************************************************************************)
\* the payload is no JSON, no object, or an object whose workUnitId is absent or falsy
NoWorkUnit ==
    \/ ~stdin.valid
    \/ stdin.doc.type # "object"
    \/ ~stdin.doc.has
    \/ ~Truthy(stdin.doc.wid)

\* the files the pattern of the payload's work unit matches
Candidates == Matching(disk, stdin.doc.wid.s)

Diagnosed ==
    /\ stderr # <<>>
    /\ stdout = <<>>
    /\ exitcode = 1
    /\ runner = <<>>

NotFound ==
    /\ stdout = << <<"No test files found for", stdin.doc.wid.s>> >>
    /\ stderr = <<>>
    /\ exitcode = 0
    /\ runner = <<>>

\* one run, on the first file glob listed, its output relayed after the notice
RanFirst ==
    /\ Len(runner) = 1
    /\ test_files \in Orders(Candidates)
    /\ runner[1].file = test_files[1]
    /\ stdout = << <<"Running tests for", stdin.doc.wid.s>> >>
                  \o (IF runner[1].stdout # "" THEN << <<"relayed", runner[1].stdout>> >> ELSE <<>>)
    /\ stderr = IF runner[1].stderr # "" THEN << <<"relayed", runner[1].stderr>> >> ELSE <<>>

\* the claim as it stands
C8_ThreeOutcomes_AllPayloads ==
    /\ Len(runner) <= 1
    /\ pc # "exited" => runner = <<>>
    /\ pc = "exited" =>
        /\ NoWorkUnit => Diagnosed
        /\ ~NoWorkUnit /\ Candidates = {} => NotFound
        /\ ~NoWorkUnit /\ Candidates # {} => RanFirst /\ exitcode = runner[1].returncode

\* the runner could not be started: a traceback after the notice, exit code 1
NotStarted ==
    /\ runner = <<>>
    /\ stdout = << <<"Running tests for", stdin.doc.wid.s>> >>
    /\ stderr = << <<"Traceback", "OSError">> >>
    /\ exitcode = 1

\* C8 as amended: (1) also covers a workUnitId that is truthy but no string
\* and one whose pattern glob rejects (the diagnostic is then the traceback of
\* the uncaught AttributeError or ValueError), and in
\* (3) the runner is started at most once, on the first matching file only: if
\* it cannot be started the hook ends with a traceback on standard error and
\* exit code 1, else its output is relayed after it has finished and the exit
\* code of the hook is the runner's exit code, or 256 - N when signal N ended
\* the runner.
C8_ThreeOutcomes ==
    /\ Len(runner) <= 1
    /\ pc # "exited" => runner = <<>>
    /\ pc = "exited" =>
        LET unusable == \/ NoWorkUnit
                        \/ stdin.doc.wid.type # "string"
                        \/ RejectedByGlob(name_pattern(stdin.doc.wid.s))
        IN /\ unusable => Diagnosed
           /\ ~unusable /\ Candidates = {} => NotFound
           /\ ~unusable /\ Candidates # {} =>
                \/ NotStarted
                \/ /\ RanFirst
                   /\ runner[1].returncode >= 0 => exitcode = runner[1].returncode
                   /\ runner[1].returncode < 0 => exitcode = 256 + runner[1].returncode

\* "A-" matched two files, the runner ran on the first listed and returned 2
C8_Witness ==
    /\ pc = "exited"
    /\ work_unit_id = JsonString(<<"A", "-">>)
    /\ Len(test_files) = 2
    /\ Len(runner) = 1
    /\ runner[1].returncode = 2
    /\ exitcode = 2

====
